---------------------------- MODULE Spec2Model ----------------------------
(***************************************************************************)
(* The PagerDuty incident list command of src/index.tsx (lines 1-271, the  *)
(* revision with status updates): the React state {items, filter, error},  *)
(* the single fetch started on mount, the filter dropdown, the acknowledge *)
(* action, the resolve form pushed on the navigation stack and the PUT     *)
(* requests with their success and failure continuations.                  *)
(* The older revision in lines 273-411 is the same fetch and filter with   *)
(* no update action: its behaviours are those of this model with no PUT.   *)
(*                                                                         *)
(* An IncidentItem is modelled by the fields id, status and urgency;       *)
(* urgency stands for every non-status field (title, summary,              *)
(* incident_number, created_at, html_url), none of which any statement of  *)
(* the source writes.                                                      *)
(***************************************************************************)
EXTENDS Integers, Sequences, FiniteSets, Bags, TLC

VARIABLES
    server,     \* the server's incident list, in server order
    fetch,      \* "pending" while the GET of line 188 is outstanding
    fetched,    \* response.incidents of the successful GET (history)
    state,      \* the React state of Command: [items, filter, error]
    form,       \* the resolve form on top of the navigation stack, if any
    requests,   \* bag of the PUT requests whose promise has not been settled
    puts,       \* number of PUT requests issued so far
    pops,       \* updateIncident calls sleeping in setTimeout(600) before pop()
    toast       \* the title of the toast shown last

vars == <<server, fetch, fetched, state, form, requests, puts, pops, toast>>

\* Bound on the number of PUT requests issued in one run.
MaxPuts == 2

----------------------------------------------------------------------------
\* Optional values (a field that may be undefined).
None == <<>>
Some(x) == <<x>>
IsSome(o) == Len(o) = 1
Get(o) == o[1]

Ids == {"A", "B"}
\* Ids a merge can be asked about: the known ones and one no list holds.
MergeIds == Ids \cup {"Z"}
Status == {"triggered", "acknowledged", "resolved"}
Urgency == {"high", "low"}
Filter == {"all"} \cup Status
Notes == {"", "fixed it"}
\* The toasts, by title: none yet, "Updating...", "Incident tested" (shown right
\* after "Incident #n has been <status>."), the message of the error of a
\* failed PUT, "Failed to update incident status." and the message of
\* state.error.
Toasts == {"none", "Updating...", "Incident tested", "update error message",
           "Failed to update incident status.", "state.error.message"}

\* The Toast.Style a toast is shown with.
Style(t) ==
    CASE t = "none" -> "none"
      [] t = "Updating..." -> "Animated"
      [] t = "Incident tested" -> "Success"
      [] OTHER -> "Failure"

IncidentItem == [id : Ids, status : Status, urgency : Urgency]

\* Position of a status in triggered < acknowledged < resolved.
Rank(s) == CASE s = "triggered" -> 0 [] s = "acknowledged" -> 1 [] s = "resolved" -> 2

\* Incident lists with pairwise distinct ids, at most one entry per id.
IncidentLists ==
    {<<>>} \cup {<<a>> : a \in IncidentItem}
           \cup {p \in IncidentItem \X IncidentItem : p[1].id # p[2].id}

EmptyState == [items |-> None, filter |-> "undefined", error |-> "undefined"]

----------------------------------------------------------------------------
\* The targets the action panel of an item offers, by the item's status.
ExposedTargets_ackAlways(status) ==
    IF status = "resolved" THEN {} ELSE {"acknowledged", "resolved"}

ExposedTargets(status) ==
    IF status = "resolved" THEN {}
    ELSE IF status = "acknowledged" THEN {"resolved"}
    ELSE {"acknowledged", "resolved"}

\* The transitions the server applies to an incident.
ServerAccepts(current, target) ==
    \/ current = "triggered" /\ target \in {"acknowledged", "resolved"}
    \/ current = "acknowledged" /\ target = "resolved"

\* The body of the PUT: the note is sent only when it is truthy.
requestBody(newStatus, note) ==
    [type |-> "incident", status |-> newStatus,
     note |-> IF note # "" THEN Some(note) ELSE None]

\* items.findIndex((i) => i.id === id): 0-based, -1 when nothing matches.
findIndex(items, id) ==
    IF \E k \in 1..Len(items) : items[k].id = id
    THEN (CHOOSE k \in 1..Len(items) :
             items[k].id = id /\ \A j \in 1..(k - 1) : items[j].id # id) - 1
    ELSE -1

\* filterIncidents(): the list the view shows, undefined while nothing is loaded.
filterIncidents(s) ==
    IF s.filter = "undefined" \/ s.filter = "all" THEN s.items
    ELSE IF IsSome(s.items)
         THEN Some(SelectSeq(Get(s.items), LAMBDA item : item.status = s.filter))
         ELSE None

\* The items of the displayed list.
Displayed(s) ==
    LET l == filterIncidents(s)
    IN IF IsSome(l) THEN {Get(l)[k] : k \in 1..Len(Get(l))} ELSE {}

\* isLoading of the List.
isLoading(s) == ~IsSome(s.items) /\ s.error = "undefined"

\* Rendering Command shows a failure toast whenever state.error is set.
RenderToast(s, t) == IF s.error # "undefined" THEN "state.error.message" ELSE t

\* updateIncident(id, newStatus) on state s with toast t showing: the new
\* state, the toast afterwards and whether a pop() has been scheduled.
updateIncident_append(s, t, id, newStatus) ==
    LET items == IF IsSome(s.items) THEN Get(s.items) ELSE <<>>
        index == findIndex(items, id)
    IN IF index < 0
       THEN [state |-> [items |-> Some(Append(items,
                                   [id |-> id, status |-> newStatus, urgency |-> "low"])),
                        filter |-> "undefined", error |-> "undefined"],
             toast |-> t, pop |-> TRUE]
       ELSE [state |-> [items |-> Some([items EXCEPT ![index + 1].status = newStatus]),
                        filter |-> "undefined", error |-> "undefined"],
             toast |-> t, pop |-> TRUE]

updateIncident_first(s, t, id, newStatus) ==
    LET items == IF IsSome(s.items) THEN Get(s.items) ELSE <<>>
        index == findIndex(items, id)
    IN IF index < 0
       THEN [state |-> s, toast |-> "Failed to update incident status.", pop |-> FALSE]
       ELSE [state |-> [items |-> Some([items EXCEPT ![1].status = newStatus]),
                        filter |-> "undefined", error |-> "undefined"],
             toast |-> t, pop |-> TRUE]

updateIncident_drop(s, t, id, newStatus) ==
    LET items == IF IsSome(s.items) THEN Get(s.items) ELSE <<>>
        index == findIndex(items, id)
    IN IF index < 0
       THEN [state |-> s, toast |-> "Failed to update incident status.", pop |-> FALSE]
       ELSE [state |-> [items |-> Some(SelectSeq(
                                   [items EXCEPT ![index + 1].status = newStatus],
                                   LAMBDA item : item.status # "resolved")),
                        filter |-> "undefined", error |-> "undefined"],
             toast |-> t, pop |-> TRUE]

updateIncident(s, t, id, newStatus) ==
    LET items == IF IsSome(s.items) THEN Get(s.items) ELSE <<>>
        index == findIndex(items, id)
    IN IF index < 0
       THEN [state |-> s, toast |-> "Failed to update incident status.", pop |-> FALSE]
       ELSE [state |-> [items |-> Some([items EXCEPT ![index + 1].status = newStatus]),
                        filter |-> "undefined", error |-> "undefined"],
             toast |-> t, pop |-> TRUE]

----------------------------------------------------------------------------
\* A PUT in flight: PUT /incidents/${item.id} with its body.
NewRequest(item, newStatus, note) ==
    [id |-> item.id, body |-> requestBody(newStatus, note),
     phase |-> "sent", resp |-> None]

\* The requests in flight, each once.
InFlight == BagToSet(requests)
\* The bag of requests with one copy of r replaced by q, and with r settled.
Replace(r, q) == (requests (-) SetToBag({r})) (+) SetToBag({q})
Settle(r) == requests (-) SetToBag({r})

\* onUpdateIncidentStatus up to the await of the PUT.
StartUpdate(item, newStatus, note) ==
    /\ puts < MaxPuts
    /\ toast' = "Updating..."
    /\ requests' = requests (+) SetToBag({NewRequest(item, newStatus, note)})
    /\ puts' = puts + 1
    /\ UNCHANGED <<server, fetch, fetched, state, form, pops>>

Init ==
    /\ server \in IncidentLists
    /\ fetch = "pending"
    /\ fetched = None
    /\ state = EmptyState
    /\ form = None
    /\ requests = EmptyBag
    /\ puts = 0
    /\ pops = 0
    /\ toast = "none"

\* The GET succeeds: setState({ items: response.incidents }).
FetchOk ==
    /\ fetch = "pending"
    /\ fetch' = "done"
    /\ fetched' = Some(server)
    /\ state' = [items |-> Some(server), filter |-> "undefined", error |-> "undefined"]
    /\ toast' = RenderToast(state', toast)
    /\ UNCHANGED <<server, form, requests, puts, pops>>

FetchFail_emptyList ==
    /\ fetch = "pending"
    /\ fetch' = "done"
    /\ state' = [items |-> Some(<<>>), filter |-> "undefined", error |-> "error"]
    /\ toast' = RenderToast(state', toast)
    /\ UNCHANGED <<server, fetched, form, requests, puts, pops>>

\* The GET fails: setState({ error }).
FetchFail ==
    /\ fetch = "pending"
    /\ fetch' = "done"
    /\ state' = [items |-> None, filter |-> "undefined", error |-> "error"]
    /\ toast' = RenderToast(state', toast)
    /\ UNCHANGED <<server, fetched, form, requests, puts, pops>>

\* The dropdown's onChange: setState((previous) => ({...previous, filter})).
SetFilter(f) ==
    /\ form = None
    /\ state.filter # f
    /\ state' = [state EXCEPT !.filter = f]
    /\ toast' = RenderToast(state', toast)
    /\ UNCHANGED <<server, fetch, fetched, form, requests, puts, pops>>

\* The "Acknowledge Incident" action of a displayed item.
Acknowledge(item) ==
    /\ form = None
    /\ item \in Displayed(state)
    /\ "acknowledged" \in ExposedTargets(item.status)
    /\ StartUpdate(item, "acknowledged", "")

\* The "Resolve Incident" Action.Push of a displayed item.
PushResolveForm(item) ==
    /\ form = None
    /\ item \in Displayed(state)
    /\ "resolved" \in ExposedTargets(item.status)
    /\ form' = Some([id |-> item.id, rendered |-> item.status])
    /\ UNCHANGED <<server, fetch, fetched, state, requests, puts, pops, toast>>

\* Submitting the resolve form: onResolve(note) on the item the form was
\* pushed for (the item object is shared with state.items).
SubmitResolve(note) ==
    /\ IsSome(form)
    /\ IsSome(state.items)
    /\ \E k \in 1..Len(Get(state.items)) :
          /\ Get(state.items)[k].id = Get(form).id
          /\ StartUpdate(Get(state.items)[k], "resolved", note)

\* The server handles a PUT: it applies the transition, recomputes the
\* other fields of the incident and answers with its record, or answers
\* non-2xx.
ServerHandle(r) ==
    /\ r.phase = "sent"
    /\ \E k \in 1..Len(server) :
          /\ server[k].id = r.id
          /\ IF ServerAccepts(server[k].status, r.body.status)
             THEN /\ \E u \in Urgency :
                        server' = [server EXCEPT ![k].status = r.body.status,
                                                 ![k].urgency = u]
                  /\ requests' = Replace(r, [r EXCEPT !.phase = "ok",
                                                       !.resp = Some(server'[k])])
             ELSE /\ server' = server
                  /\ requests' = Replace(r, [r EXCEPT !.phase = "err"])
    /\ UNCHANGED <<fetch, fetched, state, form, puts, pops, toast>>

\* The request or its response is lost in transport.
TransportError(r) ==
    /\ r.phase \in {"sent", "ok"}
    /\ requests' = Replace(r, [r EXCEPT !.phase = "err", !.resp = None])
    /\ UNCHANGED <<server, fetch, fetched, state, form, puts, pops, toast>>

\* The PUT resolved: the try block after the await (two success toasts,
\* then props.onUpdate(item.id, response.incident.status)).
UpdateOk(r) ==
    /\ r.phase = "ok"
    /\ LET res == updateIncident(state, "Incident tested", r.id, Get(r.resp).status)
       IN /\ state' = res.state
          /\ toast' = RenderToast(res.state, res.toast)
          /\ pops' = IF res.pop THEN pops + 1 ELSE pops
    /\ requests' = Settle(r)
    /\ UNCHANGED <<server, fetch, fetched, form, puts>>

UpdateFail_optimistic(r) ==
    /\ r.phase = "err"
    /\ state' = updateIncident(state, "Incident tested", r.id, r.body.status).state
    /\ toast' = "update error message"
    /\ requests' = Settle(r)
    /\ UNCHANGED <<server, fetch, fetched, form, puts, pops>>

\* The PUT rejected: the catch block.
UpdateFail(r) ==
    /\ r.phase = "err"
    /\ toast' = "update error message"
    /\ requests' = Settle(r)
    /\ UNCHANGED <<server, fetch, fetched, state, form, puts, pops>>

\* setTimeout(600) of an updateIncident call elapses: pop().
Pop ==
    /\ pops > 0
    /\ pops' = pops - 1
    /\ form' = None
    /\ UNCHANGED <<server, fetch, fetched, state, requests, puts, toast>>

Next ==
    \/ FetchOk
    \/ FetchFail
    \/ \E f \in Filter : SetFilter(f)
    \/ \E item \in IncidentItem : Acknowledge(item)
    \/ \E item \in IncidentItem : PushResolveForm(item)
    \/ \E note \in Notes : SubmitResolve(note)
    \/ \E r \in InFlight : ServerHandle(r)
    \/ \E r \in InFlight : TransportError(r)
    \/ \E r \in InFlight : UpdateOk(r)
    \/ \E r \in InFlight : UpdateFail(r)
    \/ Pop

Spec == Init /\ [][Next]_vars

----------------------------------------------------------------------------
\* The merge step on its own: the continuation of one settled PUT (for any
\* id, also one that no list holds) run on any state the view can be in.
ViewStates ==
    {st \in [items : {None} \cup {Some(l) : l \in IncidentLists},
             filter : {"undefined"} \cup Filter,
             error : {"undefined", "error"}] :
        st.error = "error" => st.items = None}

SettledRequests ==
    {[id |-> i, body |-> requestBody(t, ""), phase |-> "ok",
      resp |-> Some([id |-> i, status |-> t, urgency |-> u])] :
        i \in MergeIds, t \in Status, u \in Urgency}
    \cup
    {[id |-> i, body |-> requestBody(t, ""), phase |-> "err", resp |-> None] :
        i \in MergeIds, t \in Status}

InitMerge ==
    /\ state \in ViewStates
    /\ \E r \in SettledRequests : requests = SetToBag({r})
    /\ server = <<>>
    /\ fetch = IF isLoading(state) THEN "pending" ELSE "done"
    /\ fetched = state.items
    /\ form = None
    /\ puts = 1
    /\ pops = 0
    /\ toast = "Updating..."

NextMerge ==
    \/ \E r \in InFlight : UpdateOk(r)
    \/ \E r \in InFlight : UpdateFail(r)

SpecMerge == InitMerge /\ [][NextMerge]_vars

----------------------------------------------------------------------------
\* Vocabulary of the properties.

\* The items of state s, the empty list while nothing is loaded.
ItemsOf(s) == IF IsSome(s.items) THEN Get(s.items) ELSE <<>>
\* Whether id matches a record of state s.
Matches(s, id) == \E k \in 1..Len(ItemsOf(s)) : ItemsOf(s)[k].id = id
\* The status state s shows for id.
LocalStatus(s, id) ==
    ItemsOf(s)[CHOOSE k \in 1..Len(ItemsOf(s)) : ItemsOf(s)[k].id = id].status
\* Request r is sent in this step.
Issued(r) == puts' = puts + 1 /\ CopiesIn(r, requests') > CopiesIn(r, requests)
\* This step is the success, the failure continuation of request r.
HandledOk(r) == r.phase = "ok" /\ requests' = Settle(r)
HandledErr(r) == r.phase = "err" /\ requests' = Settle(r)
\* Number of requests in flight for id.
InFlightFor(id) ==
    BagCardinality([r \in {q \in InFlight : q.id = id} |-> CopiesIn(r, requests)])

\* C1: no PUT is ever sent whose target status is not reachable, by the
\* transition table, from the status the collection shows for the incident
\* at that moment (the update is refused before any request).
C1_NoInvalidPut ==
    [][\A r \in BagToSet(requests') :
          Issued(r) => ServerAccepts(LocalStatus(state, r.id), r.body.status)]_vars

\* C2: the status the collection shows for an incident never moves back in
\* triggered < acknowledged < resolved.
C2_StatusNeverReverts ==
    [][IsSome(state.items) /\ IsSome(state'.items) =>
          \A k \in 1..Len(Get(state.items)) :
              Rank(Get(state'.items)[k].status) >= Rank(Get(state.items)[k].status)]_vars

\* C3: at most one update request per incident id is in flight at any time.
C3_OneInFlightPerIncident ==
    \A id \in Ids : InFlightFor(id) <= 1

\* C4: starting an update sends exactly one PUT and changes nothing of the
\* view state; handling its failure changes nothing of the view state, sends
\* no further PUT and shows a failure toast; and a loaded collection changes
\* only in the success continuation of a PUT.
C4_FailedUpdateLeavesState ==
    [][/\ puts' = puts + 1 =>
            /\ state' = state
            /\ BagCardinality(requests') = BagCardinality(requests) + 1
       /\ \A r \in InFlight : HandledErr(r) =>
            /\ state' = state
            /\ puts' = puts
            /\ pops' = pops
            /\ Style(toast') = "Failure"
       /\ (IsSome(state.items) /\ state'.items # state.items) =>
            \E r \in InFlight : HandledOk(r)]_vars

\* A failure has been handled after the only PUT and the list is as fetched.
C4_Witness ==
    /\ IsSome(state.items)
    /\ toast = "update error message"
    /\ puts = 1
    /\ requests = EmptyBag
    /\ state.items = fetched

\* C5 as stated: after the success continuation of a PUT for X with server
\* record R, the record with id X of the collection is R.
C5_RecordReplacedByResponse ==
    [][\A r \in InFlight : HandledOk(r) =>
          \A k \in 1..Len(ItemsOf(state')) :
              ItemsOf(state')[k].id = r.id => ItemsOf(state')[k] = Get(r.resp)]_vars

\* C5 amended: after the success continuation of a PUT for X with server
\* record R, exactly one record of the collection has id X, its status is
\* the status of R and its other fields are what they were before.
C5_StatusOfResponseMerged ==
    [][\A r \in InFlight : HandledOk(r) =>
          /\ Cardinality({k \in 1..Len(ItemsOf(state')) :
                             ItemsOf(state')[k].id = r.id}) = 1
          /\ Len(ItemsOf(state')) = Len(ItemsOf(state))
          /\ \A k \in 1..Len(ItemsOf(state')) :
                ItemsOf(state')[k].id = r.id =>
                    /\ ItemsOf(state')[k].status = Get(r.resp).status
                    /\ ItemsOf(state')[k].urgency = ItemsOf(state)[k].urgency]_vars

\* A merge has changed a status while the server's record of that incident
\* has another urgency than the local one.
C5_Witness ==
    /\ IsSome(state.items)
    /\ toast = "Incident tested"
    /\ \E k \in 1..Len(ItemsOf(state)) : \E j \in 1..Len(server) :
          /\ ItemsOf(state)[k].status # Get(fetched)[k].status
          /\ server[j].id = ItemsOf(state)[k].id
          /\ server[j].status = ItemsOf(state)[k].status
          /\ server[j].urgency # ItemsOf(state)[k].urgency

\* C6: a displayed item offers exactly the targets the table allows from its
\* status; a resolve form is pushed only for a displayed item, from whose
\* status resolved is reachable; and every PUT sent carries a target that is
\* reachable from the status the item had when its action was rendered (the
\* list for acknowledge, the pushed form for resolve).
C6_State ==
    \A item \in Displayed(state) :
        ExposedTargets(item.status) = {t \in Status : ServerAccepts(item.status, t)}

C6_Step ==
    /\ (form = None /\ IsSome(form')) =>
          /\ \E item \in Displayed(state) :
                item.id = Get(form').id /\ item.status = Get(form').rendered
          /\ ServerAccepts(Get(form').rendered, "resolved")
    /\ \A r \in BagToSet(requests') : Issued(r) =>
          IF form = None
          THEN /\ \E item \in Displayed(state) : item.id = r.id
               /\ ServerAccepts(LocalStatus(state, r.id), r.body.status)
          ELSE /\ r.id = Get(form).id
               /\ ServerAccepts(Get(form).rendered, r.body.status)

C6_ExposedActionsFollowTable == []C6_State /\ [][C6_Step]_vars

\* A resolve sent from a form pushed for an acknowledged item, and an
\* acknowledge in flight for a triggered one.
C6_Witness ==
    /\ IsSome(form)
    /\ Get(form).rendered = "acknowledged"
    /\ \E r \in InFlight : r.id = Get(form).id /\ r.body.status = "resolved"
    /\ \E r \in InFlight : r.body.status = "acknowledged"

\* C7: items and error are never both set; the list is loading exactly while
\* the fetch is outstanding; after a failed fetch error is set, items is
\* absent and nothing is listed; after a successful fetch items is present
\* (an empty list included) and error is absent.
C7_FetchErrorState ==
    /\ ~(IsSome(state.items) /\ state.error # "undefined")
    /\ isLoading(state) <=> fetch = "pending"
    /\ (fetch = "done" /\ fetched = None) =>
          /\ state.error = "error"
          /\ state.items = None
          /\ filterIncidents(state) = None
          /\ Displayed(state) = {}
    /\ IsSome(fetched) =>
          /\ IsSome(state.items)
          /\ state.error = "undefined"
          /\ (puts = 0 => state.items = fetched)

\* The fetch has failed and the view shows the error state.
C7_Witness ==
    /\ fetch = "done"
    /\ state.error = "error"
    /\ ~isLoading(state)
    /\ Style(toast) = "Failure"

\* C8: once fetched, the collection keeps its length, its ids in the fetched
\* order, pairwise distinct, and every non-status field; a step changes the
\* status of at most the one record whose id is that of the PUT it settles.
C8_State ==
    IsSome(fetched) =>
        /\ IsSome(state.items)
        /\ Len(Get(state.items)) = Len(Get(fetched))
        /\ \A k \in 1..Len(Get(fetched)) :
              /\ Get(state.items)[k].id = Get(fetched)[k].id
              /\ Get(state.items)[k].urgency = Get(fetched)[k].urgency
        /\ \A j, k \in 1..Len(Get(state.items)) :
              Get(state.items)[j].id = Get(state.items)[k].id => j = k

C8_Step ==
    (IsSome(state.items) /\ state'.items # state.items) =>
        \E r \in InFlight :
            /\ HandledOk(r)
            /\ IsSome(state'.items)
            /\ Len(Get(state'.items)) = Len(Get(state.items))
            /\ \A k \in 1..Len(Get(state.items)) :
                  Get(state.items)[k].id # r.id =>
                      Get(state'.items)[k] = Get(state.items)[k]

C8_OnlyStatusChanges == []C8_State /\ [][C8_Step]_vars

\* Both incidents of a fetched list of two have been given another status.
C8_Witness ==
    /\ IsSome(fetched)
    /\ Len(Get(fetched)) = 2
    /\ \A k \in 1..2 : Get(state.items)[k].status # Get(fetched)[k].status

\* C9: the success continuation of a PUT whose id matches no record of the
\* collection (or with no collection loaded) shows a failure toast and
\* leaves the state as it is, and schedules no pop; the failure continuation
\* of a PUT (a 404 included) does not reach the merge: state and pops stay.
C9_UnmatchedMergeFails ==
    [][\A r \in InFlight :
          /\ (HandledOk(r) /\ ~Matches(state, r.id)) =>
                /\ state' = state
                /\ Style(toast') = "Failure"
                /\ pops' = pops
          /\ HandledErr(r) =>
                /\ state' = state
                /\ toast' = "update error message"
                /\ pops' = pops]_vars

\* The success continuation has run for an id the loaded list does not hold.
C9_Witness ==
    /\ requests = EmptyBag
    /\ IsSome(state.items)
    /\ Len(Get(state.items)) = 2
    /\ state.filter # "undefined"
    /\ toast = "Failed to update incident status."
    /\ pops = 0

\* C10: state.filter changes only by the dropdown: a step that changes it
\* leaves items and error, the fetch and the requests as they are.
C10_FilterChangesOnlyByDropdown ==
    [][state'.filter # state.filter =>
          /\ state'.items = state.items
          /\ state'.error = state.error
          /\ fetch' = fetch
          /\ requests' = requests]_vars

=============================================================================
